---- MODULE Spec2Model ----
(***************************************************************************)
(* Model of pycwlviewer.cwlviewer.CWLViewer: the construction pipeline of  *)
(* CWLViewer.__init__ (load the RDF graph, resolve the root workflow, run  *)
(* the three edge extractors) and the pygraphviz diagram it builds.        *)
(*                                                                         *)
(* URIs and labels are sequences of one-character strings, so that         *)
(* urlparse(...).fragment is computed and not assumed.  The RDF graph is   *)
(* represented by the rows the four bundled SPARQL queries return on it.   *)
(***************************************************************************)
EXTENDS Naturals, Sequences, FiniteSets, TLC

VARIABLES
    filename,        \* self._filename: the workflow document handed to cwltool
    pc,              \* position inside CWLViewer.__init__
    error,           \* the exception that left __init__, "none" if none
    dot_graph,       \* self._dot_graph (pygraphviz AGraph)
    rdf_graph,       \* self._rdf_graph (rdflib Graph)
    root_graph_uri,  \* self._root_graph_uri
    queries,         \* the queries issued on rdf_graph so far, with bindings
    calls,           \* the extractors invoked so far, in order
    history          \* dot_graph as it was before each of the last two calls

vars == <<filename, pc, error, dot_graph, rdf_graph, root_graph_uri,
          queries, calls, history>>

----------------------------------------------------------------------------
(* Bounds of the model *)

\* the three extractor queries together return at most MaxRows rows
MaxRows == 3
\* the extractors are re-invoked at most MaxReinvoke times after construction
MaxReinvoke == 2

----------------------------------------------------------------------------
(* URIs, labels and rows *)

S1 == <<"w", "f", "#", "s", "1">>
S2 == <<"w", "f", "#", "s", "2">>
In1 == <<"w", "f", "#", "i">>
Out1 == <<"w", "f", "#", "o">>
Both == <<"w", "f", "#", "x">>
W1 == <<"w", "f", "#", "m">>
W2 == <<"w", "f", "#", "n">>

StepURIs == {S1, S2}
InputURIs == {In1, Both}
OutputURIs == {Out1, Both}

\* an rdfs:label binding of a result row: None, or a string (possibly empty)
None == [bound |-> FALSE, val |-> <<>>]
Some(s) == [bound |-> TRUE, val |-> s]
DeclaredLabels == {None, Some(<<>>), Some(<<"A">>)}

\* no value yet for self._root_graph_uri / no initBindings
NoURI == <<>>

InnerRow(s, t, lab) ==
    [source_step |-> s, source_label |-> lab[s],
     target_step |-> t, target_label |-> lab[t]]

InnerRowsOf(lab) == {InnerRow(s, t, lab) : s \in StepURIs, t \in StepURIs}
InputRowSet == [input : InputURIs, step : StepURIs]
OutputRowSet == [output : OutputURIs, step : StepURIs]

EmptyRdf == [root |-> <<>>, inner |-> <<>>, input |-> <<>>, output |-> <<>>]

RootRowSeqs == {<<>>, <<[workflow |-> W1]>>, <<[workflow |-> W2], [workflow |-> W1]>>}

RowTriples(lab, na, nb, nc) ==
    {[inner |-> a, input |-> b, output |-> c] :
        a \in [1..na -> InnerRowsOf(lab)],
        b \in [1..nb -> InputRowSet],
        c \in [1..nc -> OutputRowSet]}

\* the row sequences the three extractor queries can return, MaxRows rows in all
ExtractorRows ==
    UNION {UNION {UNION {UNION {RowTriples(lab, na, nb, nc) :
        nc \in 0..(MaxRows - na - nb)} :
        nb \in 0..(MaxRows - na)} :
        na \in 0..MaxRows} :
        lab \in [StepURIs -> DeclaredLabels]}

\* the RDF graphs cwltool --print-rdf can print, as the rows of the four queries
RdfGraphs ==
    {[root |-> r, inner |-> t.inner, input |-> t.input, output |-> t.output] :
        r \in RootRowSeqs, t \in ExtractorRows}

\* a workflow document: what cwltool makes of it, and the graph it prints
Documents ==
    {[cwltool |-> "ok", rdf |-> g] : g \in RdfGraphs}
    \cup {[cwltool |-> o, rdf |-> EmptyRdf] : o \in {"exit1", "raises"}}

----------------------------------------------------------------------------
(* urlparse(uri).fragment and the label of an inner-edge node *)

HashPositions(u) == {i \in 1..Len(u) : u[i] = "#"}

MinOf(S) == CHOOSE i \in S : \A j \in S : i <= j

\* urllib.parse.urlparse(u).fragment: what follows the first "#", "" without one
Fragment(u) ==
    IF HashPositions(u) = {} THEN <<>>
    ELSE SubSeq(u, MinOf(HashPositions(u)) + 1, Len(u))

\* the mutant: the declared label is dropped when it is empty (truthiness test)
InnerLabelIfTruthy(label, step) ==
    IF label.bound /\ label.val # <<>> THEN label.val ELSE Fragment(step)

\* the mutant: the declared label is never consulted
InnerLabelFragmentOnly(label, step) == Fragment(step)

\* label if label is not None else urlparse(step).fragment
InnerLabel(label, step) ==
    IF label.bound THEN label.val ELSE Fragment(step)

----------------------------------------------------------------------------
(* The pygraphviz AGraph, as the calls of the viewer use it *)

\* what graphviz reports for an attribute nobody set: "\N" for label, "" otherwise
DefaultAttr == [label |-> <<"\\", "N">>, fillcolor |-> "", style |-> ""]

StepAttr(label) ==
    [label |-> label, fillcolor |-> "lightgoldenrodyellow", style |-> "filled"]

BoundaryAttr(uri) ==
    [label |-> Fragment(uri), fillcolor |-> "#94DDF4", style |-> "filled"]

NoGraphAttr == [rank |-> "", style |-> "", label |-> "", labelloc |-> ""]

InputsAttr ==
    [rank |-> "same", style |-> "dashed", label |-> "Workflow Inputs", labelloc |-> ""]

OutputsAttr ==
    [rank |-> "same", style |-> "dashed", label |-> "Workflow Outputs", labelloc |-> "b"]

\* AGraph(directed=True, strict=False) with the viewer's defaults, still empty
init_dot_graph ==
    [directed |-> TRUE, strict |-> FALSE,
     graph_attr |-> [bgcolor |-> "#eeeeee", labeljust |-> "left", clusterrank |-> "local"],
     node_attr |-> [shape |-> "record"],
     nodes |-> <<>>, edges |-> <<>>, subgraphs |-> <<>>]

HasNode(g, n) == \E i \in DOMAIN g.nodes : g.nodes[i].name = n

\* the node is found or created; its attributes are left alone
EnsureNode(g, n) ==
    IF HasNode(g, n) THEN g
    ELSE [g EXCEPT !.nodes = Append(@, [name |-> n, attr |-> DefaultAttr])]

\* the mutant: add_node always makes a new node
add_node_dup(g, n, attr) ==
    [g EXCEPT !.nodes = Append(@, [name |-> n, attr |-> attr])]

\* AGraph.add_node(n, **attr): find or create the node, then set the attributes
add_node(g, n, attr) ==
    LET h == EnsureNode(g, n)
    IN [h EXCEPT !.nodes =
            [i \in DOMAIN h.nodes |->
                IF h.nodes[i].name = n THEN [name |-> n, attr |-> attr]
                ELSE h.nodes[i]]]

HasEdge(g, u, v) == \E i \in DOMAIN g.edges : g.edges[i] = <<u, v>>

\* the mutant: the graph behaves as a strict one, parallel edges collapse
add_edge_strict(g, u, v) ==
    LET h == EnsureNode(EnsureNode(g, u), v)
    IN IF HasEdge(h, u, v) THEN h ELSE [h EXCEPT !.edges = Append(@, <<u, v>>)]

\* the mutant: the edge is added the wrong way round
add_edge_reversed(g, u, v) ==
    LET h == EnsureNode(EnsureNode(g, u), v)
    IN [h EXCEPT !.edges = Append(@, <<v, u>>)]

\* AGraph.add_edge(u, v): both ends are found or created bare, the edge is
\* appended; a graph that is not strict keeps parallel edges
add_edge(g, u, v) ==
    LET h == EnsureNode(EnsureNode(g, u), v)
    IN IF h.strict /\ HasEdge(h, u, v) THEN h
       ELSE [h EXCEPT !.edges = Append(@, <<u, v>>)]

HasSubgraph(g, name) == \E i \in DOMAIN g.subgraphs : g.subgraphs[i].name = name

\* AGraph.add_subgraph(name=...) followed by the graph_attr assignments:
\* the subgraph is found or created, then its attributes are set
add_subgraph(g, name, attr) ==
    LET h == IF HasSubgraph(g, name) THEN g
             ELSE [g EXCEPT !.subgraphs =
                     Append(@, [name |-> name, nodes |-> {}, graph_attr |-> NoGraphAttr])]
    IN [h EXCEPT !.subgraphs =
            [i \in DOMAIN h.subgraphs |->
                IF h.subgraphs[i].name = name
                THEN [h.subgraphs[i] EXCEPT !.graph_attr = attr]
                ELSE h.subgraphs[i]]]

\* subgraph.add_node(n, **attr): the node is found or created in the root
\* graph, becomes a member of the subgraph, and gets the attributes
subgraph_add_node(g, name, n, attr) ==
    LET h == add_node(g, n, attr)
    IN [h EXCEPT !.subgraphs =
            [i \in DOMAIN h.subgraphs |->
                IF h.subgraphs[i].name = name
                THEN [h.subgraphs[i] EXCEPT !.nodes = @ \cup {n}]
                ELSE h.subgraphs[i]]]

----------------------------------------------------------------------------
(* The three extractors, as functions of the diagram and the rows *)

\* one pass of the loop of _set_inner_edges
InnerEdgeRow(g, row) ==
    LET g1 == add_node(g, row.source_step,
                       StepAttr(InnerLabel(row.source_label, row.source_step)))
        g2 == add_node(g1, row.target_step,
                       StepAttr(InnerLabel(row.target_label, row.target_step)))
    IN add_edge(g2, row.source_step, row.target_step)

RECURSIVE InnerEdgeRows(_, _)
InnerEdgeRows(g, rows) ==
    IF rows = <<>> THEN g
    ELSE InnerEdgeRows(InnerEdgeRow(g, Head(rows)), Tail(rows))

set_inner_edges(g, rows) == InnerEdgeRows(g, rows)

\* one pass of the loop of _set_input_edges
InputEdgeRow(g, row) ==
    add_edge(subgraph_add_node(g, "cluster_inputs", row.input, BoundaryAttr(row.input)),
             row.input, row.step)

RECURSIVE InputEdgeRows(_, _)
InputEdgeRows(g, rows) ==
    IF rows = <<>> THEN g
    ELSE InputEdgeRows(InputEdgeRow(g, Head(rows)), Tail(rows))

set_input_edges(g, rows) ==
    InputEdgeRows(add_subgraph(g, "cluster_inputs", InputsAttr), rows)

\* one pass of the loop of _set_output_edges
OutputEdgeRow(g, row) ==
    add_edge(subgraph_add_node(g, "cluster_outputs", row.output, BoundaryAttr(row.output)),
             row.step, row.output)

RECURSIVE OutputEdgeRows(_, _)
OutputEdgeRows(g, rows) ==
    IF rows = <<>> THEN g
    ELSE OutputEdgeRows(OutputEdgeRow(g, Head(rows)), Tail(rows))

set_output_edges(g, rows) ==
    OutputEdgeRows(add_subgraph(g, "cluster_outputs", OutputsAttr), rows)

----------------------------------------------------------------------------
(* The queries *)

\* self._rdf_graph.query(text, initBindings=bindings): the rows of that query
Query(g, name, bindings) ==
    CASE name = "get_root" -> g.root
      [] name = "get_inner_edges" -> g.inner
      [] name = "get_input_edges" -> g.input
      [] name = "get_output_edges" -> g.output

\* the mutant: an extractor binds a URI other than the resolved root
WrongBindings(uri) == [root_graph |-> NoURI]

\* initBindings={'root_graph': self._root_graph_uri}
RootBindings(uri) == [root_graph |-> uri]

\* get_root runs the query with no bindings
NoBindings == [root_graph |-> NoURI]

Issued(name, bindings) == [query |-> name, bindings |-> bindings]

\* the mutant: the last row of the root query is taken
LastRow(rows) == rows[Len(rows)]

\* list(rows)[0]
FirstRow(rows) == rows[1]

----------------------------------------------------------------------------
(* The steps of CWLViewer.__init__ *)

Init ==
    /\ filename \in Documents
    /\ pc = "load"
    /\ error = "none"
    /\ dot_graph = init_dot_graph
    /\ rdf_graph = EmptyRdf
    /\ root_graph_uri = NoURI
    /\ queries = <<>>
    /\ calls = <<>>
    /\ history = <<>>

\* what cwltool_main(['--print-rdf', filename], stdout=stdout) leaves in stdout:
\* the graph of a document it converts, nothing when it gives up with exit code 1
cwl2rdf(f) == IF f.cwltool = "ok" THEN f.rdf ELSE EmptyRdf

\* self._rdf_graph = self._load_cwl_graph(); an exception of cwltool leaves
\* __init__, an exit code of cwltool is not looked at
LoadCwlGraph ==
    /\ pc = "load"
    /\ IF filename.cwltool = "raises"
       THEN /\ pc' = "failed"
            /\ error' = "cwltool"
            /\ UNCHANGED rdf_graph
       ELSE /\ pc' = "root"
            /\ rdf_graph' = cwl2rdf(filename)
            /\ UNCHANGED error
    /\ UNCHANGED <<filename, dot_graph, root_graph_uri, queries, calls, history>>

\* self._root_graph_uri = self.get_root_graph_uri(); list(...)[0] raises
\* IndexError on an empty result
GetRootGraphUri ==
    /\ pc = "root"
    /\ queries' = Append(queries, Issued("get_root", NoBindings))
    /\ LET rows == Query(rdf_graph, "get_root", NoBindings)
       IN IF rows = <<>>
          THEN /\ pc' = "failed"
               /\ error' = "IndexError"
               /\ UNCHANGED root_graph_uri
          ELSE /\ pc' = "inner"
               /\ root_graph_uri' = FirstRow(rows).workflow
               /\ UNCHANGED error
    /\ UNCHANGED <<filename, dot_graph, rdf_graph, calls, history>>

LastTwo(s) == IF Len(s) <= 2 THEN s ELSE SubSeq(s, Len(s) - 1, Len(s))

Record(name) ==
    /\ calls' = Append(calls, name)
    /\ history' = LastTwo(Append(history, dot_graph))

InnerBindings(uri) == RootBindings(uri)
InputBindings(uri) == RootBindings(uri)
OutputBindings(uri) == RootBindings(uri)

\* self._set_inner_edges()
RunInner ==
    /\ queries' = Append(queries, Issued("get_inner_edges", InnerBindings(root_graph_uri)))
    /\ dot_graph' = set_inner_edges(dot_graph,
            Query(rdf_graph, "get_inner_edges", InnerBindings(root_graph_uri)))
    /\ Record("inner")

\* self._set_input_edges()
RunInput ==
    /\ queries' = Append(queries, Issued("get_input_edges", InputBindings(root_graph_uri)))
    /\ dot_graph' = set_input_edges(dot_graph,
            Query(rdf_graph, "get_input_edges", InputBindings(root_graph_uri)))
    /\ Record("input")

\* self._set_output_edges()
RunOutput ==
    /\ queries' = Append(queries, Issued("get_output_edges", OutputBindings(root_graph_uri)))
    /\ dot_graph' = set_output_edges(dot_graph,
            Query(rdf_graph, "get_output_edges", OutputBindings(root_graph_uri)))
    /\ Record("output")

SetInnerEdges ==
    /\ pc = "inner"
    /\ RunInner
    /\ pc' = "input"
    /\ UNCHANGED <<filename, error, rdf_graph, root_graph_uri>>

SetInputEdges ==
    /\ pc = "input"
    /\ RunInput
    /\ pc' = "output"
    /\ UNCHANGED <<filename, error, rdf_graph, root_graph_uri>>

SetOutputEdges ==
    /\ pc = "output"
    /\ RunOutput
    /\ pc' = "done"
    /\ UNCHANGED <<filename, error, rdf_graph, root_graph_uri>>

Next ==
    \/ LoadCwlGraph
    \/ GetRootGraphUri
    \/ SetInnerEdges
    \/ SetInputEdges
    \/ SetOutputEdges

Spec == Init /\ [][Next]_vars

----------------------------------------------------------------------------
(* An extractor invoked again on the constructed viewer *)

\* __init__ itself makes three extractor calls
Constructing == 3

ReinvokeInner ==
    /\ pc = "done"
    /\ Len(calls) < Constructing + MaxReinvoke
    /\ RunInner
    /\ UNCHANGED <<filename, pc, error, rdf_graph, root_graph_uri>>

ReinvokeInput ==
    /\ pc = "done"
    /\ Len(calls) < Constructing + MaxReinvoke
    /\ RunInput
    /\ UNCHANGED <<filename, pc, error, rdf_graph, root_graph_uri>>

ReinvokeOutput ==
    /\ pc = "done"
    /\ Len(calls) < Constructing + MaxReinvoke
    /\ RunOutput
    /\ UNCHANGED <<filename, pc, error, rdf_graph, root_graph_uri>>

NextReinvoke ==
    \/ Next
    \/ ReinvokeInner
    \/ ReinvokeInput
    \/ ReinvokeOutput

SpecReinvoke == Init /\ [][NextReinvoke]_vars

----------------------------------------------------------------------------
(* Reading the diagram *)

NodeNames(g) == {g.nodes[i].name : i \in DOMAIN g.nodes}

AttrOf(g, n) == g.nodes[CHOOSE i \in DOMAIN g.nodes : g.nodes[i].name = n].attr

Members(g, name) ==
    UNION {g.subgraphs[i].nodes : i \in {j \in DOMAIN g.subgraphs : g.subgraphs[j].name = name}}

EdgeCount(g, e) == Cardinality({i \in DOMAIN g.edges : g.edges[i] = e})

Occurrences(s, e) == Cardinality({i \in DOMAIN s : s[i] = e})

\* l is the fragment of u: u is p # l with no "#" in p, or u has no "#" and l is empty
IsFragmentOf(l, u) ==
    \/ (\A k \in 1..Len(u) : u[k] # "#") /\ l = <<>>
    \/ \E k \in 1..Len(u) :
          /\ u[k] = "#"
          /\ \A j \in 1..(k - 1) : u[j] # "#"
          /\ Len(l) = Len(u) - k
          /\ \A j \in 1..Len(l) : l[j] = u[k + j]

InnerRowsSeen == rdf_graph.inner
InputRowsSeen == rdf_graph.input
OutputRowsSeen == rdf_graph.output

\* the inner extractor has just run, nothing has touched its nodes since
AfterInner == pc = "input"

Constructed == pc = "done" /\ Len(calls) = Constructing

----------------------------------------------------------------------------
(* The claims *)

\* C1: after the inner extractor, the node of every inner row's source_step
\* and target_step carries the row's declared label verbatim when that label
\* is not null, and the fragment of the step URI when it is null.
C1_InnerLabelResolution ==
    AfterInner =>
        \A i \in DOMAIN InnerRowsSeen :
            LET r == InnerRowsSeen[i]
                sl == AttrOf(dot_graph, r.source_step).label
                tl == AttrOf(dot_graph, r.target_step).label
            IN /\ IF r.source_label.bound THEN sl = r.source_label.val
                  ELSE IsFragmentOf(sl, r.source_step)
               /\ IF r.target_label.bound THEN tl = r.target_label.val
                  ELSE IsFragmentOf(tl, r.target_step)

\* a row from a labelled step to an unlabelled one has been extracted
C1_Witness ==
    /\ AfterInner
    /\ \E i \in DOMAIN InnerRowsSeen :
          /\ InnerRowsSeen[i].source_label = Some(<<"A">>)
          /\ InnerRowsSeen[i].target_label = None
          /\ AttrOf(dot_graph, InnerRowsSeen[i].source_step).label = <<"A">>
          /\ AttrOf(dot_graph, InnerRowsSeen[i].target_step).label = <<"s", "2">>

RootAsked == \E i \in DOMAIN queries : queries[i].query = "get_root"

\* C2: once the root query has run, a non-empty result makes the root the
\* workflow of its first row; an empty result ends construction with the
\* IndexError of list(...)[0] (the spec's RootNotFoundError), no extractor
\* has run or runs, and the diagram stays empty and is never handed out.
C2_RootResolution ==
    RootAsked =>
        IF rdf_graph.root # <<>>
        THEN /\ pc # "failed"
             /\ root_graph_uri = rdf_graph.root[1].workflow
        ELSE /\ pc = "failed"
             /\ error = "IndexError"
             /\ calls = <<>>
             /\ Len(queries) = 1
             /\ dot_graph = init_dot_graph

\* a converted document without a root has stopped the construction
C2_Witness ==
    /\ filename.cwltool = "ok"
    /\ rdf_graph.root = <<>>
    /\ rdf_graph.input # <<>>
    /\ pc = "failed"
    /\ error = "IndexError"

\* C3: a document cwltool cannot convert ends construction at the load
\* stage with the conversion error, before any query is issued.
C3_ConversionFailureStopsAtLoad ==
    (filename.cwltool # "ok" /\ pc # "load") =>
        /\ pc = "failed"
        /\ error = "cwltool"
        /\ queries = <<>>

IsStepStyled(g, n) == AttrOf(g, n).fillcolor = "lightgoldenrodyellow"
IsBoundaryStyled(g, n) ==
    AttrOf(g, n).fillcolor = "#94DDF4" /\ AttrOf(g, n).style = "filled"

\* C4: after construction every node of the inputs cluster is styled as a
\* boundary node and has an edge to a step-styled node, and every node of
\* the outputs cluster is styled as a boundary node and has an edge from a
\* step-styled node.
C4_ClusterMembership ==
    Constructed =>
        /\ \A n \in Members(dot_graph, "cluster_inputs") :
              /\ IsBoundaryStyled(dot_graph, n)
              /\ \E m \in NodeNames(dot_graph) :
                    HasEdge(dot_graph, n, m) /\ IsStepStyled(dot_graph, m)
        /\ \A n \in Members(dot_graph, "cluster_outputs") :
              /\ IsBoundaryStyled(dot_graph, n)
              /\ \E m \in NodeNames(dot_graph) :
                    HasEdge(dot_graph, m, n) /\ IsStepStyled(dot_graph, m)

\* C5: after construction no node is in both clusters.
C5_ClustersDisjoint ==
    Constructed =>
        Members(dot_graph, "cluster_inputs") \cap Members(dot_graph, "cluster_outputs") = {}

RowEdges(name) ==
    CASE name = "inner" ->
            [i \in DOMAIN InnerRowsSeen |->
                <<InnerRowsSeen[i].source_step, InnerRowsSeen[i].target_step>>]
      [] name = "input" ->
            [i \in DOMAIN InputRowsSeen |-> <<InputRowsSeen[i].input, InputRowsSeen[i].step>>]
      [] name = "output" ->
            [i \in DOMAIN OutputRowsSeen |-> <<OutputRowsSeen[i].step, OutputRowsSeen[i].output>>]

AllPairs == (StepURIs \cup InputURIs \cup OutputURIs) \X (StepURIs \cup InputURIs \cup OutputURIs)

SameTwice == Len(calls) >= 2 /\ calls[Len(calls)] = calls[Len(calls) - 1]

\* C6: when an extractor has been invoked twice in a row, the second
\* invocation left the nodes, their attributes, the clusters and the cluster
\* attributes as the first one had left them, and the edges hold every edge
\* of that extractor's rows twice on top of what was there before.
C6_ExtractorIdempotent ==
    SameTwice =>
        LET before == history[1]
            once == history[2]
            twice == dot_graph
            mine == RowEdges(calls[Len(calls)])
        IN /\ twice.nodes = once.nodes
           /\ twice.subgraphs = once.subgraphs
           /\ twice.graph_attr = once.graph_attr
           /\ twice.node_attr = once.node_attr
           /\ \A e \in AllPairs :
                 /\ EdgeCount(once, e) = EdgeCount(before, e) + Occurrences(mine, e)
                 /\ EdgeCount(twice, e) = EdgeCount(before, e) + 2 * Occurrences(mine, e)
           /\ Len(twice.edges) = Len(before.edges) + 2 * Len(mine)

\* the inner extractor has run twice in a row on a graph with inner rows
C6_Witness ==
    /\ SameTwice
    /\ calls[Len(calls)] = "inner"
    /\ InnerRowsSeen # <<>>
    /\ Len(dot_graph.edges) = Len(history[1].edges) + 2 * Len(InnerRowsSeen)

EndToEnd ==
    /\ InnerRowsSeen = <<[source_step |-> S1, source_label |-> Some(<<"A">>),
                          target_step |-> S2, target_label |-> Some(<<"A">>)]>>
    /\ InputRowsSeen = <<[input |-> In1, step |-> S1]>>
    /\ OutputRowsSeen = <<[output |-> Out1, step |-> S2]>>

\* C7: for steps S1 -> S2 with declared labels, an input feeding S1 and an
\* output produced by S2, the constructed diagram has exactly the four
\* nodes, exactly the three edges In1->S1, S1->S2, S2->Out1, and two
\* clusters with one node each.
C7_EndToEnd ==
    (Constructed /\ EndToEnd) =>
        /\ Len(dot_graph.nodes) = 4
        /\ NodeNames(dot_graph) = {In1, S1, S2, Out1}
        /\ Len(dot_graph.edges) = 3
        /\ {dot_graph.edges[i] : i \in DOMAIN dot_graph.edges}
              = {<<In1, S1>>, <<S1, S2>>, <<S2, Out1>>}
        /\ Len(dot_graph.subgraphs) = 2
        /\ Members(dot_graph, "cluster_inputs") = {In1}
        /\ Members(dot_graph, "cluster_outputs") = {Out1}

C7_Witness == Constructed /\ EndToEnd /\ Len(dot_graph.edges) = 3

StageAfter(p) ==
    CASE p = "load" -> "root"
      [] p = "root" -> "inner"
      [] p = "inner" -> "input"
      [] p = "input" -> "output"
      [] p = "output" -> "done"
      [] OTHER -> p

StageQuery(p) ==
    CASE p = "inner" -> "get_inner_edges"
      [] p = "input" -> "get_input_edges"
      [] p = "output" -> "get_output_edges"
      [] OTHER -> "none"

StageOrder ==
    /\ pc' \in {StageAfter(pc), "failed"}
    /\ pc \notin {"done", "failed"}
    /\ pc # "load" => rdf_graph' = rdf_graph
    /\ pc = "load" => queries' = <<>>
    /\ pc = "root" =>
          /\ queries = <<>>
          /\ queries' = <<[query |-> "get_root", bindings |-> [root_graph |-> NoURI]]>>
          /\ calls' = <<>>
    /\ pc \in {"inner", "input", "output"} =>
          /\ root_graph_uri = rdf_graph.root[1].workflow
          /\ root_graph_uri' = root_graph_uri
          /\ queries[1].query = "get_root"
          /\ queries' = Append(queries,
                [query |-> StageQuery(pc), bindings |-> [root_graph |-> root_graph_uri]])
          /\ calls' = Append(calls, pc)

\* C8: every step of the construction moves to the next stage of load, root,
\* inner, input, output (or fails); no query is issued during the load, the
\* root query is the first query, every extractor issues its own query bound
\* to the resolved root, and no step after the load changes the fact graph.
C8_ConstructionOrder == [][StageOrder]_vars

C8_Witness ==
    /\ pc = "done"
    /\ Len(queries) = 4
    /\ calls = <<"inner", "input", "output">>
    /\ rdf_graph.inner # <<>>

\* C9 as stated: a declared label that is the empty string gives way to the
\* fragment of the step URI.
C9_EmptyLabelFallsBack ==
    AfterInner =>
        \A i \in DOMAIN InnerRowsSeen :
            LET r == InnerRowsSeen[i]
            IN /\ r.source_label = Some(<<>>) =>
                    IsFragmentOf(AttrOf(dot_graph, r.source_step).label, r.source_step)
               /\ r.target_label = Some(<<>>) =>
                    IsFragmentOf(AttrOf(dot_graph, r.target_step).label, r.target_step)

\* C9 amended: a declared label that is the empty string is used as it is,
\* the node's label is the empty string; only a null label gives way to the
\* fragment.
C9_EmptyLabelVerbatim ==
    AfterInner =>
        \A i \in DOMAIN InnerRowsSeen :
            LET r == InnerRowsSeen[i]
            IN /\ r.source_label = Some(<<>>) =>
                    AttrOf(dot_graph, r.source_step).label = <<>>
               /\ r.target_label = Some(<<>>) =>
                    AttrOf(dot_graph, r.target_step).label = <<>>

C9_Witness ==
    /\ AfterInner
    /\ \E i \in DOMAIN InnerRowsSeen :
          /\ InnerRowsSeen[i].source_label = Some(<<>>)
          /\ AttrOf(dot_graph, InnerRowsSeen[i].source_step).label = <<>>
          /\ Fragment(InnerRowsSeen[i].source_step) # <<>>

RowEndpoints ==
    {InnerRowsSeen[i].source_step : i \in DOMAIN InnerRowsSeen}
    \cup {InnerRowsSeen[i].target_step : i \in DOMAIN InnerRowsSeen}
    \cup {InputRowsSeen[i].input : i \in DOMAIN InputRowsSeen}
    \cup {InputRowsSeen[i].step : i \in DOMAIN InputRowsSeen}
    \cup {OutputRowsSeen[i].output : i \in DOMAIN OutputRowsSeen}
    \cup {OutputRowsSeen[i].step : i \in DOMAIN OutputRowsSeen}

\* C10: after construction the nodes are exactly the URIs that are an
\* endpoint of some row, one node per URI, every edge joins two nodes, and
\* there are as many edges as the three queries returned rows.
C10_DiagramFromRows ==
    Constructed =>
        /\ NodeNames(dot_graph) = RowEndpoints
        /\ Len(dot_graph.nodes) = Cardinality(RowEndpoints)
        /\ \A i \in DOMAIN dot_graph.edges :
              /\ dot_graph.edges[i][1] \in NodeNames(dot_graph)
              /\ dot_graph.edges[i][2] \in NodeNames(dot_graph)
        /\ Len(dot_graph.edges)
              = Len(InnerRowsSeen) + Len(InputRowsSeen) + Len(OutputRowsSeen)

\* two rows of the same pair gave two parallel edges, and a URI that is in
\* two rows gave one node
C10_Witness ==
    /\ Constructed
    /\ \E i, j \in DOMAIN dot_graph.edges : i # j /\ dot_graph.edges[i] = dot_graph.edges[j]
    /\ Len(dot_graph.edges) = MaxRows
    /\ Len(dot_graph.nodes) < 2 * MaxRows

====
